---------------------------- MODULE Spec2Model ----------------------------
(***************************************************************************)
(* A model of unused-buddy's analyzer (src/src/analyzer.rs): source        *)
(* discovery, module parsing, specifier resolution, root selection, the    *)
(* reachability traversal, the finding emitter and the removal planner.    *)
(*                                                                         *)
(* Strings are TLA+ strings; TLC evaluates Len, SubSeq and \o on them, so  *)
(* paths, specifiers and finding ids are the character strings the code    *)
(* builds.                                                                 *)
(***************************************************************************)
EXTENDS Integers, Sequences, FiniteSets, TLC

VARIABLES disk, opts, calls, scans, removals, last, attempted, commands, walk

vars == <<disk, opts, calls, scans, removals, last, attempted, commands, walk>>

-----------------------------------------------------------------------------
(* Strings (Rust str / String): bytewise comparison, prefix and suffix.    *)

Ch(s, i) == SubSeq(s, i, i)

\* The characters the model's strings use, in ascending byte order.
Alphabet == " $'()*,-./0123456789:;=?@_abcdefghijklmnopqrstuvwxyz{}"

Ord(c) == CHOOSE i \in 1..Len(Alphabet) : Ch(Alphabet, i) = c

Min(S) == CHOOSE x \in S : \A y \in S : x <= y

Max(S) == CHOOSE x \in S : \A y \in S : y <= x

\* a < b in the byte order of str::cmp
StrLt(a, b) ==
    LET n == IF Len(a) < Len(b) THEN Len(a) ELSE Len(b)
        d == {i \in 1..n : Ch(a, i) # Ch(b, i)}
    IN  IF d = {} THEN Len(a) < Len(b)
        ELSE Ord(Ch(a, Min(d))) < Ord(Ch(b, Min(d)))

StrLeq(a, b) == a = b \/ StrLt(a, b)

StartsWith(s, p) == Len(p) <= Len(s) /\ SubSeq(s, 1, Len(p)) = p

EndsWith(s, x) == Len(x) <= Len(s) /\ SubSeq(s, Len(s) - Len(x) + 1, Len(s)) = x

\* positions of the character c in s
Positions(s, c) == {i \in 1..Len(s) : Ch(s, i) = c}

\* str::find(c) / str::rfind(c) as a 1-based index, 0 when absent
Find(s, c) == IF Positions(s, c) = {} THEN 0 ELSE Min(Positions(s, c))

RFind(s, c) == IF Positions(s, c) = {} THEN 0 ELSE Max(Positions(s, c))

\* the k-th smallest element of a finite set of integers
Nth(S, k) == CHOOSE x \in S : Cardinality({y \in S : y < x}) = k - 1

\* str::split(c): the pieces between the occurrences of c, empty ones kept
Split(s, c) ==
    LET P == Positions(s, c)
        n == Cardinality(P)
    IN  [k \in 1..(n + 1) |->
            SubSeq(s, (IF k = 1 THEN 0 ELSE Nth(P, k - 1)) + 1,
                      (IF k = n + 1 THEN Len(s) + 1 ELSE Nth(P, k)) - 1)]

\* the elements of a sequence
Range(q) == {q[i] : i \in DOMAIN q}

-----------------------------------------------------------------------------
(* Paths (std::path::Path on Unix).  A path is its string; equality and    *)
(* order are by components, display() is the string itself.                *)

\* Path::components(): empty pieces and "." pieces are dropped, except a
\* leading "." of a relative path; a leading "/" is the root component.
Components(p) ==
    LET parts == Split(p, "/")
        keep(i) == /\ parts[i] # ""
                   /\ (parts[i] = "." => i = 1)
        idx == {i \in DOMAIN parts : keep(i)}
        body == [k \in 1..Cardinality(idx) |-> parts[Nth(idx, k)]]
    IN  IF StartsWith(p, "/") THEN <<"/">> \o body ELSE body

\* PartialEq for Path
PathEq(p, q) == Components(p) = Components(q)

\* Ord for Path: lexicographic over the components, each compared bytewise
PathLt(p, q) ==
    LET a == Components(p)
        b == Components(q)
        n == IF Len(a) < Len(b) THEN Len(a) ELSE Len(b)
        d == {i \in 1..n : a[i] # b[i]}
    IN  IF d = {} THEN Len(a) < Len(b)
        ELSE StrLt(a[Min(d)], b[Min(d)])

\* Path::join / PathBuf::push
Join(base, rel) ==
    IF StartsWith(rel, "/") THEN rel
    ELSE IF base = "" \/ EndsWith(base, "/") THEN base \o rel
    ELSE base \o "/" \o rel

\* the end (index of the last character) of the last component of p, 0 if none:
\* trailing "/" and "/." are not part of any component
RECURSIVE NameEnd(_)
NameEnd(p) ==
    IF p = "" THEN 0
    ELSE IF EndsWith(p, "/") THEN NameEnd(SubSeq(p, 1, Len(p) - 1))
    ELSE IF EndsWith(p, "/.") THEN NameEnd(SubSeq(p, 1, Len(p) - 2))
    ELSE Len(p)

\* the index of the first character of the last component of p
NameStart(p) == RFind(SubSeq(p, 1, NameEnd(p)), "/") + 1

\* Path::file_name(): the last component when it is a normal one, else ""
FileName(p) ==
    LET n == SubSeq(p, NameStart(p), NameEnd(p))
    IN  IF n \in {"", ".", ".."} THEN "" ELSE n

\* Path::parent(): p without its last component
Parent(p) ==
    LET s == NameStart(p)
    IN  IF s <= 1 THEN "" ELSE IF s = 2 THEN "/" ELSE SubSeq(p, 1, s - 2)

\* Path::file_stem(): the name up to its last ".", the whole name when it has
\* no "." or only a leading one
FileStem(p) ==
    LET n == FileName(p)
        i == RFind(n, ".")
    IN  IF i <= 1 THEN n ELSE SubSeq(n, 1, i - 1)

\* Path::extension(): the part of the name after its last ".", "" if none
Extension(p) ==
    LET n == FileName(p)
        i == RFind(n, ".")
    IN  IF i <= 1 THEN "" ELSE SubSeq(n, i + 1, Len(n))

\* Path::with_extension(ext): the string is cut right after the file stem and
\* "." ext is appended; a path without a file name is returned unchanged
WithExtension(p, ext) ==
    IF FileName(p) = "" THEN p
    ELSE SubSeq(p, 1, NameStart(p) + Len(FileStem(p)) - 1)
            \o (IF ext = "" THEN "" ELSE "." \o ext)

-----------------------------------------------------------------------------
(* Module parsing (parse_module).  A source file is what the parser and    *)
(* the two regular expressions report about its text, plus its lines:      *)
(*   import_entries   [req, kind, name]  kind in Name / Default / Namespace*)
(*   requested        every static module request                          *)
(*   local_exports    exported names ("default" for the default export)    *)
(*   indirect_exports [name, req, kind, import]  kind in Name / All / Null *)
(*   star_exports     module requests of `export * from`                   *)
(*   dynamic_imports  the text of each import(...) argument                *)
(*   cjs_objects      the brace contents of each module.exports = {...}    *)
(*   requires         the specifier of each require('...')                 *)
(*   lines            the lines of the text                                *)

NoSource ==
    [import_entries |-> <<>>, requested |-> <<>>, local_exports |-> <<>>,
     indirect_exports |-> <<>>, star_exports |-> <<>>, dynamic_imports |-> <<>>,
     cjs_objects |-> <<>>, requires |-> <<>>, lines |-> <<>>]

\* str::trim for the blanks the model's texts use
RECURSIVE Trim(_)
Trim(s) ==
    IF StartsWith(s, " ") THEN Trim(SubSeq(s, 2, Len(s)))
    ELSE IF EndsWith(s, " ") THEN Trim(SubSeq(s, 1, Len(s) - 1))
    ELSE s

\* the ascending sequence of a finite set of strings (BTreeSet / BTreeMap order)
SortStrings(S) ==
    [k \in 1..Cardinality(S) |->
        CHOOSE s \in S : Cardinality({t \in S : StrLt(t, s)}) = k - 1]

NewImportRef(raw, wildcard) ==
    [raw |-> raw, symbols |-> <<>>, wildcard_use |-> wildcard,
     is_dynamic_non_literal |-> FALSE]

\* BTreeMap::entry(key).or_insert_with(...)
OrInsert(map, key, ref) ==
    IF key \in DOMAIN map THEN map ELSE map @@ (key :> ref)

\* BTreeMap::insert(key, ref)
Insert(map, key, ref) ==
    [k \in DOMAIN map \cup {key} |-> IF k = key THEN ref ELSE map[k]]

\* analyzer.rs 231-248
RECURSIVE AddImportEntries(_, _)
AddImportEntries(map, es) ==
    IF es = <<>> THEN map
    ELSE LET e == Head(es)
             m == OrInsert(map, e.req, NewImportRef(e.req, FALSE))
             r == m[e.req]
             r2 == CASE e.kind = "Name" -> [r EXCEPT !.symbols = Append(@, e.name)]
                     [] e.kind = "Default" -> [r EXCEPT !.symbols = Append(@, "default")]
                     [] e.kind = "Namespace" -> [r EXCEPT !.wildcard_use = TRUE]
         IN  AddImportEntries([m EXCEPT ![e.req] = r2], Tail(es))

\* analyzer.rs 250-258
RECURSIVE AddRequested(_, _)
AddRequested(map, rs) ==
    IF rs = <<>> THEN map
    ELSE AddRequested(OrInsert(map, Head(rs), NewImportRef(Head(rs), FALSE)), Tail(rs))

\* analyzer.rs 271-287
RECURSIVE AddIndirect(_, _)
AddIndirect(map, es) ==
    IF es = <<>> THEN map
    ELSE LET e == Head(es)
             m == OrInsert(map, e.req, NewImportRef(e.req, FALSE))
             r == m[e.req]
             r2 == CASE e.kind = "Name" -> [r EXCEPT !.symbols = Append(@, e.import)]
                     [] e.kind = "All" -> [r EXCEPT !.wildcard_use = TRUE]
                     [] e.kind = "Null" -> r
         IN  AddIndirect([m EXCEPT ![e.req] = r2], Tail(es))

\* analyzer.rs 290-301 and 339-349: a consumer of the whole namespace
RECURSIVE AddWildcard(_, _)
AddWildcard(map, rs) ==
    IF rs = <<>> THEN map
    ELSE LET m == OrInsert(map, Head(rs), NewImportRef(Head(rs), TRUE))
         IN  AddWildcard([m EXCEPT ![Head(rs)].wildcard_use = TRUE], Tail(rs))

\* parse_string_literal: the text between matching quotes, or "none"
IsStringLiteral(expr) ==
    LET t == Trim(expr)
    IN  /\ Len(t) >= 2
        /\ \/ Ch(t, 1) = "\"" /\ Ch(t, Len(t)) = "\""
           \/ Ch(t, 1) = "'" /\ Ch(t, Len(t)) = "'"

LiteralValue(expr) == LET t == Trim(expr) IN SubSeq(t, 2, Len(t) - 1)

\* analyzer.rs 303-326
RECURSIVE AddDynamic(_, _)
AddDynamic(map, ds) ==
    IF ds = <<>> THEN map
    ELSE LET text == Trim(Head(ds))
         IN  IF IsStringLiteral(text)
             THEN LET spec == LiteralValue(text)
                      m == OrInsert(map, spec, NewImportRef(spec, TRUE))
                  IN  AddDynamic([m EXCEPT ![spec].wildcard_use = TRUE], Tail(ds))
             ELSE AddDynamic(
                    Insert(map, "dynamic:" \o text,
                           [raw |-> text, symbols |-> <<>>, wildcard_use |-> FALSE,
                            is_dynamic_non_literal |-> TRUE]),
                    Tail(ds))

\* analyzer.rs 329-337: the names of one module.exports = { ... } object
CjsNames(body) ==
    LET parts == Split(body, ",")
    IN  {Trim(Split(parts[i], ":")[1]) : i \in DOMAIN parts} \ {""}

ParseModule(src) ==
    LET m1 == AddImportEntries(<<>>, src.import_entries)
        m2 == AddRequested(m1, src.requested)
        m3 == AddIndirect(m2, src.indirect_exports)
        m4 == AddWildcard(m3, src.star_exports)
        m5 == AddDynamic(m4, src.dynamic_imports)
        import_map == AddWildcard(m5, src.requires)
        exports == Range(src.local_exports)
                     \cup {src.indirect_exports[i].name : i \in DOMAIN src.indirect_exports}
                     \cup UNION {CjsNames(src.cjs_objects[i]) : i \in DOMAIN src.cjs_objects}
        keys == SortStrings(DOMAIN import_map)
    IN  [exports |-> SortStrings(exports),
         imports |-> [k \in DOMAIN keys |-> import_map[keys[k]]],
         raw_source |-> src.lines]

-----------------------------------------------------------------------------
(* Safety classifier (has_possible_side_effects).                          *)

SkippedPrefixes ==
    {"//", "/*", "*", "import ", "export ", "type ", "interface ", "enum ",
     "const ", "let ", "var ", "function ", "class "}

HasPossibleSideEffects(lines) ==
    \E i \in DOMAIN lines :
        LET l == Trim(lines[i])
        IN  /\ l # ""
            /\ \A p \in SkippedPrefixes : ~StartsWith(l, p)

-----------------------------------------------------------------------------
(* The analyzed tree.  disk maps the path of every regular file under the  *)
(* root to the name of its content: a source text (Source), a package.json *)
(* (PackageJson) or a tsconfig.json (TsConfig).                            *)

\* the root directory handed to scan
Root == "r"

\* strip_prefix(root): the root-relative path with "/" separators
Rel(path) ==
    IF StartsWith(path, Root \o "/") THEN SubSeq(path, Len(Root) + 2, Len(path))
    ELSE path

\* Path::exists() without symbolic links: the path, its ".." resolved, names a
\* file of the tree or a directory above one
RECURSIVE Resolved(_, _)
Resolved(done, rest) ==
    IF rest = <<>> THEN done
    ELSE IF Head(rest) = ".." /\ done # <<>> /\ done[Len(done)] \notin {"..", "/"}
         THEN Resolved(SubSeq(done, 1, Len(done) - 1), Tail(rest))
    ELSE IF Head(rest) = "." THEN Resolved(done, Tail(rest))
    ELSE Resolved(Append(done, Head(rest)), Tail(rest))

IsPrefix(a, b) == Len(a) <= Len(b) /\ SubSeq(b, 1, Len(a)) = a

Exists(d, p) ==
    LET c == Resolved(<<>>, Components(p))
    IN  \E f \in DOMAIN d : IsPrefix(c, Components(f))

IsFile(d, p) ==
    LET c == Resolved(<<>>, Components(p))
    IN  \E f \in DOMAIN d : c = Components(f)

\* the ascending sequence of a finite set of paths (Vec<PathBuf>::sort)
SortPaths(S) ==
    [k \in 1..Cardinality(S) |->
        CHOOSE s \in S : Cardinality({t \in S : PathLt(t, s)}) = k - 1]

-----------------------------------------------------------------------------
(* Source discovery (collect_source_files, build_globset, has_allowed_ext) *)

\* Glob::new(p) fails on a malformed pattern
GlobValid(p) == p # "src/{a"

\* GlobSet::is_match for one pattern of the model's pattern menu (globset's
\* defaults: "*" also crosses "/", "**/" matches any number of directories)
GlobMatch(p, rel) ==
    CASE p = "src/**/*.{js,ts,jsx,tsx}" ->
            /\ StartsWith(rel, "src/")
            /\ \E e \in {".js", ".ts", ".jsx", ".tsx"} : EndsWith(rel, e)
      [] p = "**/*.test.*" ->
            \E i \in 1..(Len(rel) - 5) : SubSeq(rel, i, i + 5) = ".test."
      [] p = "**/b.*" -> StartsWith(FileName(rel), "b.")
      [] p = "**/a.*" -> StartsWith(FileName(rel), "a.")
      [] p = "lib/**" -> StartsWith(rel, "lib/")
      [] OTHER -> p = rel

SetMatch(patterns, rel) == \E i \in DOMAIN patterns : GlobMatch(patterns[i], rel)

\* has_allowed_ext accepting every extension
HasAnyExt(path, allowed) == TRUE

HasAllowedExt(path, allowed) == \E i \in DOMAIN allowed : allowed[i] = Extension(path)

\* collect_source_files with the exclude test negated
AcceptedOnlyExcluded(d, o) ==
    {path \in DOMAIN d :
        /\ SetMatch(o.exclude, Rel(path))
        /\ HasAllowedExt(path, o.extensions)
        /\ \/ o.include = <<>>
           \/ SetMatch(o.include, Rel(path))
           \/ StartsWith(Rel(path), "src/")}

\* the set of accepted files, before sorting
Accepted(d, o) ==
    {path \in DOMAIN d :
        /\ ~SetMatch(o.exclude, Rel(path))
        /\ HasAllowedExt(path, o.extensions)
        /\ \/ o.include = <<>>
           \/ SetMatch(o.include, Rel(path))
           \/ StartsWith(Rel(path), "src/")}

GlobsValid(o) ==
    /\ \A i \in DOMAIN o.include : GlobValid(o.include[i])
    /\ \A i \in DOMAIN o.exclude : GlobValid(o.exclude[i])

CollectSourceFiles(d, o) == SortPaths(Accepted(d, o))

-----------------------------------------------------------------------------
(* Path aliases (load_ts_paths) and the package manifest.                  *)

\* what serde_json reads from the tsconfig.json contents of the model:
\* valid = FALSE for malformed JSON, base_url <<>> when absent, paths in the
\* order the JSON object is iterated
TsConfig(c) ==
    CASE c = "ts_alias" ->
            [valid |-> TRUE, base_url |-> <<".">>,
             paths |-> <<[alias |-> "@/*", targets |-> <<"src/*">>]>>]
      [] c = "ts_bare" -> [valid |-> TRUE, base_url |-> <<>>, paths |-> <<>>]
      \* the keys are in ascending order, the order the map of serde_json
      \* iterates in whether or not it preserves the order of the document
      [] c = "ts_rules" ->
            [valid |-> TRUE, base_url |-> <<".">>,
             paths |-> <<[alias |-> "./q", targets |-> <<"src/a">>],
                         [alias |-> "@/*", targets |-> <<"src/g/*">>],
                         [alias |-> "@/a", targets |-> <<"src/b", "src/a">>]>>]
      [] c = "ts_overlap" ->
            [valid |-> TRUE, base_url |-> <<>>,
             paths |-> <<[alias |-> "lib*b", targets |-> <<"src/*">>]>>]
      [] OTHER -> [valid |-> FALSE, base_url |-> <<>>, paths |-> <<>>]

TsConfigPath == Join(Root, "tsconfig.json")

\* [err, base_url, mappings]: err when the file exists and is malformed
LoadTsPaths(d) ==
    IF TsConfigPath \notin DOMAIN d
    THEN [err |-> FALSE, base_url |-> <<>>, mappings |-> <<>>]
    ELSE LET v == TsConfig(d[TsConfigPath])
         IN  IF ~v.valid
             THEN [err |-> TRUE, base_url |-> <<>>, mappings |-> <<>>]
             ELSE [err |-> FALSE,
                   base_url |-> [i \in DOMAIN v.base_url |-> Join(Root, v.base_url[i])],
                   mappings |-> v.paths]

\* what serde_json reads from the package.json contents of the model: the
\* string values of main, module, bin and exports, in the order the code
\* visits them; valid = FALSE for malformed JSON
PackageJson(c) ==
    CASE c = "pkg_main_a" -> [valid |-> TRUE, entries |-> <<"src/a.ts">>]
      [] c = "pkg_main_lib" -> [valid |-> TRUE, entries |-> <<"lib/x.ts">>]
      [] c = "pkg_empty" -> [valid |-> TRUE, entries |-> <<>>]
      [] c = "pkg_many" -> [valid |-> TRUE, entries |-> <<"src/b.ts", "src/a.ts", "src/b.ts">>]
      [] OTHER -> [valid |-> FALSE, entries |-> <<>>]

PackageJsonPath == Join(Root, "package.json")

-----------------------------------------------------------------------------
(* Specifier resolution (resolve_import, resolve_ts_path,                  *)
(* resolve_candidate).  A result is <<path>> for Some(path), <<>> for None.*)

\* the candidates of one base, in the order they are tested
Candidates(base, exts) ==
    LET n == Len(exts)
    IN  [k \in 1..(2 * n + 1) |->
            IF k = 1 THEN base
            ELSE IF k % 2 = 0 THEN WithExtension(base, exts[k \div 2])
            ELSE Join(base, "index." \o exts[(k - 1) \div 2])]

\* resolve_candidate falling back to the base itself when no candidate is a
\* discovered file
ResolveCandidateOrBase(base, files, exts) ==
    LET cands == Candidates(base, exts)
        known == {Components(files[i]) : i \in DOMAIN files}
        hits == {k \in DOMAIN cands : Components(cands[k]) \in known}
    IN  IF hits = {} THEN <<base>> ELSE <<cands[Min(hits)]>>

ResolveCandidate(base, files, exts) ==
    LET cands == Candidates(base, exts)
        known == {Components(files[i]) : i \in DOMAIN files}
        hits == {k \in DOMAIN cands : Components(cands[k]) \in known}
    IN  IF hits = {} THEN <<>> ELSE <<cands[Min(hits)]>>

\* str::replace('*', middle)
RECURSIVE ReplaceStar(_, _)
ReplaceStar(t, middle) ==
    LET i == Find(t, "*")
    IN  IF i = 0 THEN t
        ELSE SubSeq(t, 1, i - 1) \o middle \o ReplaceStar(SubSeq(t, i + 1, Len(t)), middle)

BaseDir(ts) == IF ts.base_url = <<>> THEN Root ELSE ts.base_url[1]

\* the first target of the list whose base resolves
RECURSIVE ResolveTargets(_, _, _, _)
ResolveTargets(targets, ts, files, exts) ==
    IF targets = <<>> THEN <<>>
    ELSE LET r == ResolveCandidate(Join(BaseDir(ts), Head(targets)), files, exts)
         IN  IF r # <<>> THEN r ELSE ResolveTargets(Tail(targets), ts, files, exts)

\* the slice raw[prefix.len()..raw.len() - suffix.len()] is out of order: the
\* code panics
SlicePanics(alias, raw) ==
    LET star == Find(alias, "*")
        prefix == SubSeq(alias, 1, star - 1)
        suffix == SubSeq(alias, star + 1, Len(alias))
    IN  /\ star # 0
        /\ StartsWith(raw, prefix) /\ EndsWith(raw, suffix)
        /\ Len(prefix) > Len(raw) - Len(suffix)

\* resolve_ts_path that returns at the first rule the specifier matches,
\* whether or not a target of the rule resolves
RECURSIVE ResolveTsPathFirstMatch(_, _, _, _, _)
ResolveTsPathFirstMatch(raw, mappings, ts, files, exts) ==
    IF mappings = <<>> THEN <<>>
    ELSE LET alias == Head(mappings).alias
             targets == Head(mappings).targets
             star == Find(alias, "*")
             prefix == SubSeq(alias, 1, star - 1)
             suffix == SubSeq(alias, star + 1, Len(alias))
             middle == SubSeq(raw, Len(prefix) + 1, Len(raw) - Len(suffix))
         IN  IF SlicePanics(alias, raw) THEN <<"!">>
             ELSE IF star # 0 /\ StartsWith(raw, prefix) /\ EndsWith(raw, suffix)
             THEN ResolveTargets([i \in DOMAIN targets |-> ReplaceStar(targets[i], middle)],
                                 ts, files, exts)
             ELSE IF star = 0 /\ alias = raw THEN ResolveTargets(targets, ts, files, exts)
             ELSE ResolveTsPathFirstMatch(raw, Tail(mappings), ts, files, exts)

\* <<"!">> stands for a panic
RECURSIVE ResolveTsPath(_, _, _, _, _)
ResolveTsPath(raw, mappings, ts, files, exts) ==
    IF mappings = <<>> THEN <<>>
    ELSE LET alias == Head(mappings).alias
             targets == Head(mappings).targets
             star == Find(alias, "*")
             prefix == SubSeq(alias, 1, star - 1)
             suffix == SubSeq(alias, star + 1, Len(alias))
             middle == SubSeq(raw, Len(prefix) + 1, Len(raw) - Len(suffix))
             r == IF star # 0
                  THEN IF StartsWith(raw, prefix) /\ EndsWith(raw, suffix)
                       THEN ResolveTargets(
                              [i \in DOMAIN targets |-> ReplaceStar(targets[i], middle)],
                              ts, files, exts)
                       ELSE <<>>
                  ELSE IF alias = raw THEN ResolveTargets(targets, ts, files, exts)
                  ELSE <<>>
         IN  IF SlicePanics(alias, raw) THEN <<"!">>
             ELSE IF r # <<>> THEN r
             ELSE ResolveTsPath(raw, Tail(mappings), ts, files, exts)

ResolveImport(current, raw, files, ts, exts) ==
    IF StartsWith(raw, ".")
    THEN ResolveCandidate(Join(Parent(current), raw), files, exts)
    ELSE ResolveTsPath(raw, ts.mappings, ts, files, exts)

-----------------------------------------------------------------------------
(* Root selection (resolve_roots).                                         *)

\* the paths of the list, joined with the root, that exist
ExistingOf(d, rels) ==
    SelectSeq([i \in DOMAIN rels |-> Join(Root, rels[i])], LAMBDA p : Exists(d, p))

\* Vec::dedup on a sorted vector: one path of each class of equal paths
\* (the first in the vector, which Vec::sort keeps stable)
SortDedup(q) ==
    LET first == {i \in DOMAIN q : \A j \in 1..(i - 1) : ~PathEq(q[j], q[i])}
    IN  SortPaths({q[i] : i \in first})

ConventionalRoots == <<"src/index.ts", "src/index.tsx", "src/index.js", "src/index.jsx">>

\* resolve_roots adding the conventional default to the roots of package.json
\* instead of consulting it only when there are none
ResolveRootsMerged(d, o, files) ==
    LET entries == ExistingOf(d, o.entry)
        pkg == IF PackageJsonPath \in DOMAIN d
               THEN PackageJson(d[PackageJsonPath])
               ELSE [valid |-> FALSE, entries |-> <<>>]
        fromPkg == IF pkg.valid THEN ExistingOf(d, pkg.entries) ELSE <<>>
        conv == ExistingOf(d, ConventionalRoots)
        fromConv == IF conv = <<>> THEN <<>> ELSE <<conv[1]>>
        fallback == IF files = <<>> THEN <<>> ELSE <<files[1]>>
    IN  IF entries # <<>> THEN entries
        ELSE IF fromPkg \o fromConv # <<>> THEN SortDedup(fromPkg \o fromConv)
        ELSE SortDedup(fallback)

ResolveRoots(d, o, files) ==
    LET entries == ExistingOf(d, o.entry)
        pkg == IF PackageJsonPath \in DOMAIN d
               THEN PackageJson(d[PackageJsonPath])
               ELSE [valid |-> FALSE, entries |-> <<>>]
        fromPkg == IF pkg.valid THEN ExistingOf(d, pkg.entries) ELSE <<>>
        conv == ExistingOf(d, ConventionalRoots)
        fromConv == IF conv = <<>> THEN <<>> ELSE <<conv[1]>>
        fallback == IF files = <<>> THEN <<>> ELSE <<files[1]>>
    IN  IF entries # <<>> THEN entries
        ELSE IF fromPkg # <<>> THEN SortDedup(fromPkg)
        ELSE IF fromConv # <<>> THEN SortDedup(fromConv)
        ELSE SortDedup(fallback)

-----------------------------------------------------------------------------
(* Reachability (reachable_files).  graph maps each discovered file to the *)
(* sequence of its edge targets; seen holds one path of each class of      *)
(* equal paths, the first inserted.                                        *)

InSet(S, p) == Components(p) \in {Components(q) : q \in S}

\* HashMap::get(&cur): the edges of the key equal to cur, <<>> without one
EdgesOf(graph, cur) ==
    IF \E k \in DOMAIN graph : PathEq(k, cur)
    THEN graph[CHOOSE k \in DOMAIN graph : PathEq(k, cur)]
    ELSE <<>>

\* reachable_files with `break` in place of `continue`: the traversal ends at
\* the first path it has already seen
RECURSIVE TraverseBreak(_, _, _)
TraverseBreak(stack, seen, graph) ==
    IF stack = <<>> THEN seen
    ELSE LET cur == stack[Len(stack)]
             rest == SubSeq(stack, 1, Len(stack) - 1)
         IN  IF InSet(seen, cur) THEN seen
             ELSE TraverseBreak(rest \o EdgesOf(graph, cur), seen \cup {cur}, graph)

\* the loop of reachable_files: the top of the stack is its last element
RECURSIVE Traverse(_, _, _)
Traverse(stack, seen, graph) ==
    IF stack = <<>> THEN seen
    ELSE LET cur == stack[Len(stack)]
             rest == SubSeq(stack, 1, Len(stack) - 1)
         IN  IF InSet(seen, cur) THEN Traverse(rest, seen, graph)
             ELSE Traverse(rest \o EdgesOf(graph, cur), seen \cup {cur}, graph)

\* reachable_files that also marks every key of the graph
ReachableFilesAll(roots, graph) == Traverse(roots, {}, graph) \cup DOMAIN graph

ReachableFiles(roots, graph) == Traverse(roots, {}, graph)

-----------------------------------------------------------------------------
(* The source texts of the model.                                          *)

Source(c) ==
    CASE c = "main" ->
            [NoSource EXCEPT
                !.lines = <<"import { a } from './a';", "import './b';", "console.log(a);">>,
                !.import_entries = <<[req |-> "./a", kind |-> "Name", name |-> "a"]>>,
                !.requested = <<"./a", "./b">>]
      [] c = "lib" ->
            [NoSource EXCEPT
                !.lines = <<"export const a = 1;", "export const c = 2;">>,
                !.local_exports = <<"a", "c">>]
      [] c = "cycle" ->
            [NoSource EXCEPT
                !.lines = <<"import { c } from './a';", "import * as i from './index';",
                            "console.log(c, i);">>,
                !.import_entries = <<[req |-> "./a", kind |-> "Name", name |-> "c"],
                                     [req |-> "./index", kind |-> "Namespace", name |-> ""]>>,
                !.requested = <<"./a", "./index">>]
      [] c = "self" ->
            [NoSource EXCEPT
                !.lines = <<"import { s } from './b';", "export const s = 1;",
                            "export const t = s;">>,
                !.import_entries = <<[req |-> "./b", kind |-> "Name", name |-> "s"]>>,
                !.requested = <<"./b">>,
                !.local_exports = <<"s", "t">>]
      [] c = "lazy" ->
            [NoSource EXCEPT
                !.lines = <<"const n = 'a';", "const m = import(n);", "export default m;">>,
                !.dynamic_imports = <<"n">>,
                !.local_exports = <<"default">>]
      [] c = "named" ->
            [NoSource EXCEPT
                !.lines = <<"import './a.ts:b.ts';", "const c = 1;",
                            "export { c as 'b.ts:c' };">>,
                !.requested = <<"./a.ts:b.ts">>,
                !.local_exports = <<"b.ts:c">>]
      [] c = "single" ->
            [NoSource EXCEPT
                !.lines = <<"export const c = 1;">>,
                !.local_exports = <<"c">>]
      [] c = "effect" ->
            [NoSource EXCEPT !.lines = <<"console.log('x')">>]
      [] c = "uses_x" ->
            [NoSource EXCEPT
                !.lines = <<"import { x } from './x';", "console.log(x);">>,
                !.import_entries = <<[req |-> "./x", kind |-> "Name", name |-> "x"]>>,
                !.requested = <<"./x">>]
      [] c = "uses_dot" ->
            [NoSource EXCEPT
                !.lines = <<"import { x } from './user.service';", "console.log(x);">>,
                !.import_entries = <<[req |-> "./user.service", kind |-> "Name", name |-> "x"]>>,
                !.requested = <<"./user.service">>]
      [] c = "uses_sub" ->
            [NoSource EXCEPT
                !.lines = <<"import './sub/c';">>,
                !.requested = <<"./sub/c">>]
      [] c = "uses_up" ->
            [NoSource EXCEPT
                !.lines = <<"import { x } from '../x';", "import './x';", "console.log(x);">>,
                !.import_entries = <<[req |-> "../x", kind |-> "Name", name |-> "x"]>>,
                !.requested = <<"../x", "./x">>]
      [] c = "uses_alias" ->
            [NoSource EXCEPT
                !.lines = <<"import '@/a';", "import './q';", "import 'ext';">>,
                !.requested = <<"@/a", "./q", "ext">>]
      [] c = "uses_lib" ->
            [NoSource EXCEPT
                !.lines = <<"import 'lib';">>,
                !.requested = <<"lib">>]
      [] c = "uses_libab" ->
            [NoSource EXCEPT
                !.lines = <<"import 'libab';">>,
                !.requested = <<"libab">>]
      [] c = "both" ->
            [NoSource EXCEPT
                !.lines = <<"import { s } from './b';", "import * as i from './index';",
                            "export const s = 1;", "console.log(s, i);">>,
                !.import_entries = <<[req |-> "./b", kind |-> "Name", name |-> "s"],
                                     [req |-> "./index", kind |-> "Namespace", name |-> ""]>>,
                !.requested = <<"./b", "./index">>,
                !.local_exports = <<"s">>]
      [] c = "uses_c" ->
            [NoSource EXCEPT
                !.lines = <<"import { c } from './a';", "export const d = c;">>,
                !.import_entries = <<[req |-> "./a", kind |-> "Name", name |-> "c"]>>,
                !.requested = <<"./a">>,
                !.local_exports = <<"d">>]
      [] c = "xmod" ->
            [NoSource EXCEPT
                !.lines = <<"export const x = 1;">>,
                !.local_exports = <<"x">>]
      [] c = "lazy2" ->
            [NoSource EXCEPT
                !.lines = <<"import { x } from './x';", "const n = 'a';", "const m = 'b';",
                            "const p = [import(n), import(m), import( n ), import('./user')];",
                            "export default p;">>,
                !.import_entries = <<[req |-> "./x", kind |-> "Name", name |-> "x"]>>,
                !.requested = <<"./x">>,
                !.dynamic_imports = <<"n", "m", "n", "'./user'">>,
                !.local_exports = <<"default">>]
      [] OTHER -> NoSource

-----------------------------------------------------------------------------
(* The scan (Analyzer::scan) and the findings it emits.                    *)

ConfUncertain == 30
ConfRisky == 60
ConfUnreachable == 98
ConfUnusedExport == 85

Finding(id, kind, file, symbol, reason, confidence, fixable) ==
    [id |-> id, kind |-> kind, file |-> file, symbol |-> symbol, reason |-> reason,
     confidence |-> confidence, fixable |-> fixable]

RECURSIVE Flatten(_)
Flatten(qs) == IF qs = <<>> THEN <<>> ELSE Head(qs) \o Flatten(Tail(qs))

\* the imports of one module that add an edge, each with its resolution
Resolutions(file, m, files, ts, exts) ==
    [j \in DOMAIN m.imports |->
        IF m.imports[j].is_dynamic_non_literal THEN <<>>
        ELSE ResolveImport(file, m.imports[j].raw, files, ts, exts)]

\* analyzer.rs 70-84 without the test of is_dynamic_non_literal
UncertainFindingsEvery(file, m) ==
    [j \in DOMAIN m.imports |->
        Finding("uc:" \o file \o ":" \o m.imports[j].raw, "Uncertain", file, <<>>,
                "dynamic_import_non_literal", ConfUncertain, FALSE)]

\* analyzer.rs 70-84
UncertainFindings(file, m) ==
    LET dyn == SelectSeq(m.imports, LAMBDA imp : imp.is_dynamic_non_literal)
    IN  [j \in DOMAIN dyn |->
            Finding("uc:" \o file \o ":" \o dyn[j].raw, "Uncertain", file, <<>>,
                    "dynamic_import_non_literal", ConfUncertain, FALSE)]

\* analyzer.rs 86-97: the edges of one file
Edges(res) == Flatten([j \in DOMAIN res |-> res[j]])

\* analyzer.rs 91-96 without the wildcard sentinel
ConsumedNamed(imp) == Range(imp.symbols)

\* analyzer.rs 91-96: what one import adds to the imported symbols of its target
Consumed(imp) == Range(imp.symbols) \cup (IF imp.wildcard_use THEN {"*"} ELSE {})

\* imported_symbols.get(file): the union over every discovered importer
ImportedSymbols(file, files, mods, res) ==
    UNION {UNION {IF res[i][j] # <<>> /\ PathEq(res[i][j][1], file)
                  THEN Consumed(mods[i].imports[j])
                  ELSE {} : j \in DOMAIN res[i]} : i \in DOMAIN files}

\* analyzer.rs 106-122 with every unreachable file taken as fixable
UnreachableFindingFixable(file, m) ==
    LET risky == HasPossibleSideEffects(m.raw_source)
    IN  Finding("uf:" \o file, "UnreachableFile", file, <<>>,
                IF risky THEN "unreachable_but_has_possible_side_effects"
                         ELSE "unreachable_file",
                IF risky THEN ConfRisky ELSE ConfUnreachable,
                TRUE)

\* analyzer.rs 106-122: the finding of one unreachable file
UnreachableFinding(file, m) ==
    LET risky == HasPossibleSideEffects(m.raw_source)
    IN  Finding("uf:" \o file, "UnreachableFile", file, <<>>,
                IF risky THEN "unreachable_but_has_possible_side_effects"
                         ELSE "unreachable_file",
                IF risky THEN ConfRisky ELSE ConfUnreachable,
                ~risky)

\* the loop of analyzer.rs 104-124 without its reachability test
UnreachableFindingsAll(files, mods, reachable) ==
    [k \in DOMAIN files |-> UnreachableFinding(files[k], mods[k])]

\* analyzer.rs 104-124
UnreachableFindings(files, mods, reachable) ==
    LET idx == {i \in DOMAIN files : ~InSet(reachable, files[i])}
    IN  [k \in 1..Cardinality(idx) |->
            UnreachableFinding(files[Nth(idx, k)], mods[Nth(idx, k)])]

\* analyzer.rs 126-146: the findings of one reachable file
UnusedExportFindings(file, files, mods, res) ==
    LET at == {i \in DOMAIN files : PathEq(files[i], file)}
    IN  IF at = {} THEN <<>>
        ELSE LET m == mods[CHOOSE i \in at : TRUE]
                 used == ImportedSymbols(file, files, mods, res)
                 has_any == "*" \in used
                 unused == SelectSeq(m.exports, LAMBDA e : ~has_any /\ e \notin used)
             IN  [k \in DOMAIN unused |->
                    Finding("ue:" \o file \o ":" \o unused[k], "UnusedExport", file,
                            <<unused[k]>>, "export_not_referenced", ConfUnusedExport, FALSE)]

\* scan without its final sort
Unsorted(fs) == fs

\* Vec::sort_by(|a, b| a.id.cmp(&b.id)): a stable sort
SortById(fs) ==
    LET before(i, j) == StrLt(fs[i].id, fs[j].id) \/ (fs[i].id = fs[j].id /\ i < j)
    IN  [k \in DOMAIN fs |->
            fs[CHOOSE i \in DOMAIN fs : Cardinality({j \in DOMAIN fs : before(j, i)}) = k - 1]]

\* the iteration orders a HashSet of paths can have
Orders(S) ==
    {q \in [1..Cardinality(S) -> S] : \A i, j \in DOMAIN q : q[i] = q[j] => i = j}

\* scan hands each value it computes to the code after it; the stages below
\* do the same, so that every value is computed once.

\* analyzer.rs 102-124: the reachable set and the findings of the first two loops
ScanReach(files, mods, roots, res, graph, reachable) ==
    [outcome |-> "ok", files |-> files, mods |-> mods, res |-> res,
     roots |-> roots, graph |-> graph, reachable |-> reachable,
     early |-> Flatten([i \in DOMAIN files |-> UncertainFindings(files[i], mods[i])])
                \o UnreachableFindings(files, mods, reachable)]

\* analyzer.rs 64-100: the graph
ScanGraph(files, mods, roots, res) ==
    LET graph == [f \in Range(files) |->
                    Edges(res[CHOOSE i \in DOMAIN files : files[i] = f])]
    IN  IF \E i \in DOMAIN res : \E j \in DOMAIN res[i] : res[i][j] = <<"!">>
        THEN [outcome |-> "panic"]
        ELSE ScanReach(files, mods, roots, res, graph, ReachableFiles(roots, graph))

\* analyzer.rs 61-62
ScanModules(d, o, files, mods, ts) ==
    IF ts.err THEN [outcome |-> "err"]
    ELSE ScanGraph(files, mods, ResolveRoots(d, o, files),
                   [i \in DOMAIN files |->
                        Resolutions(files[i], mods[i], files, ts, o.extensions)])

\* analyzer.rs 53-59
ScanFiles(d, o, files) ==
    ScanModules(d, o, files,
                [i \in DOMAIN files |-> ParseModule(Source(d[files[i]]))],
                LoadTsPaths(d))

\* analyzer.rs 52: everything scan computes before it walks the reachable set
ScanState(d, o) ==
    IF ~GlobsValid(o) THEN [outcome |-> "err"]
    ELSE ScanFiles(d, o, CollectSourceFiles(d, o))

\* the findings scan returns when the reachable set is iterated in `order`
Findings(st, order) ==
    SortById(st.early
             \o Flatten([k \in DOMAIN order |->
                            UnusedExportFindings(order[k], st.files, st.mods, st.res)]))

-----------------------------------------------------------------------------
(* The removal planner (Analyzer::remove_safe_unreachable).                *)

\* analyzer.rs 156-164 without the test of fixable
RemovalCandidatesAll(findings) ==
    LET c == SelectSeq(findings, LAMBDA f : f.kind = "UnreachableFile")
    IN  [k \in DOMAIN c |-> c[k].file]

\* analyzer.rs 156-164 losing the first candidate
RemovalCandidatesButFirst(findings) ==
    LET c == SelectSeq(findings, LAMBDA f : f.kind = "UnreachableFile" /\ f.fixable)
    IN  [k \in 1..(Len(c) - 1) |-> c[k + 1].file]

\* analyzer.rs 156-164: the files of the fixable UnreachableFile findings
RemovalCandidates(findings) ==
    LET c == SelectSeq(findings, LAMBDA f : f.kind = "UnreachableFile" /\ f.fixable)
    IN  [k \in DOMAIN c |-> c[k].file]

\* skipped_risky counting every UnreachableFile finding
SkippedRiskyAll(findings) ==
    Len(SelectSeq(findings, LAMBDA f : f.kind = "UnreachableFile"))

\* analyzer.rs 156-164: the number of UnreachableFile findings that are not fixable
SkippedRisky(findings) ==
    Len(SelectSeq(findings, LAMBDA f : f.kind = "UnreachableFile" /\ ~f.fixable))

\* the deletion loop reached without the test of `yes`
MutatesOnFix(fix, yes) == fix

\* does remove_safe_unreachable reach the deletion loop
Mutates(fix, yes) == fix /\ yes

\* the deletion loop with `break` on the first failure: only the candidates
\* before the first refused one are deleted
DeletedUntilRefused(d, candidates, refused) ==
    {f \in DOMAIN d :
        \E k \in DOMAIN candidates :
            /\ PathEq(candidates[k], f)
            /\ \A j \in 1..k : \A g \in refused : ~PathEq(candidates[j], g)}

\* the deletion loop deleting every file of the tree
DeletedEverything(d, candidates, refused) == DOMAIN d

\* fs::remove_file(f) succeeds on a file of the tree unless the file system
\* refuses (the paths of `refused`)
Deleted(d, candidates, refused) ==
    {f \in DOMAIN d : f \notin refused /\ \E k \in DOMAIN candidates : PathEq(candidates[k], f)}

RemoveSummary(planned, removed, skipped_risky, dry_run) ==
    [planned |-> planned, removed |-> removed, skipped_risky |-> skipped_risky,
     dry_run |-> dry_run]

-----------------------------------------------------------------------------
(* The state machine: one tree, one Analyzer at a time, and the calls made *)
(* on it.                                                                  *)
(*   disk       the tree                                                   *)
(*   opts       the options of the current Analyzer                        *)
(*   calls      how many calls were made                                   *)
(*   scans      the scans made so far, each with the tree and the options  *)
(*              it saw and everything it computed                          *)
(*   removals   the removals made so far: arguments, summary, the paths    *)
(*              handed to fs::remove_file and the tree before the call     *)
(*   last       the name of the last call                                  *)
(*   attempted  every path handed to fs::remove_file so far                *)
(*   commands   the command-line commands run so far (lib.rs), each with   *)
(*              its flags and what it returned                             *)
(*   walk       a call of reachable_files taken step by step: its          *)
(*              arguments roots and graph, its locals stack and seen, the  *)
(*              paths whose edges it pushed, in order, and whether it is   *)
(*              still in its loop                                          *)

\* reachable_files is not running
NoWalk ==
    [roots |-> <<>>, graph |-> <<>>, stack |-> <<>>, seen |-> {}, expanded |-> <<>>,
     running |-> FALSE]

\* the most source files a tree holds, and the most calls a behaviour makes
MaxFiles == 3
MaxCalls == 3

SourcePaths == {"r/src/index.ts", "r/src/a.ts", "r/src/b.ts", "r/src/a.ts:b.ts"}

\* the contents a path of the model's trees can have; "-" is no file
Contents(path) ==
    CASE path = "r/src/index.ts" -> {"-", "main", "lazy"}
      [] path = "r/src/a.ts" -> {"-", "lib", "named", "effect"}
      [] path = "r/src/b.ts" -> {"-", "cycle", "self", "effect"}
      [] path = "r/src/a.ts:b.ts" -> {"-", "single"}
      [] path = "r/package.json" -> {"-"}
      [] path = "r/tsconfig.json" -> {"-"}

TreePaths == SourcePaths \cup {"r/package.json", "r/tsconfig.json"}

\* the tree holding content t[p] at each path p where t[p] is not "-"
Tree(t) == [p \in {q \in DOMAIN t : t[q] # "-"} |-> t[p]]

Trees ==
    {d \in {Tree([p \in TreePaths |->
                    CASE p = "r/src/index.ts" -> i [] p = "r/src/a.ts" -> a
                      [] p = "r/src/b.ts" -> b [] p = "r/src/a.ts:b.ts" -> c
                      [] p = "r/package.json" -> pkg [] p = "r/tsconfig.json" -> ts]) :
                i \in Contents("r/src/index.ts"), a \in Contents("r/src/a.ts"),
                b \in Contents("r/src/b.ts"), c \in Contents("r/src/a.ts:b.ts"),
                pkg \in Contents("r/package.json"), ts \in Contents("r/tsconfig.json")} :
        Cardinality(DOMAIN d \cap SourcePaths) <= MaxFiles}

DefaultInclude == <<"src/**/*.{js,ts,jsx,tsx}">>
DefaultExtensions == <<"js", "jsx", "ts", "tsx">>

ExcludeMenu == {<<>>, <<"**/b.*">>}
EntryMenu == {<<>>, <<"src/a.ts">>}

OptionsMenu ==
    {[include |-> DefaultInclude, exclude |-> x, entry |-> e, extensions |-> DefaultExtensions] :
        x \in ExcludeMenu, e \in EntryMenu}

Init ==
    /\ disk \in Trees
    /\ opts \in OptionsMenu
    /\ calls = 0
    /\ scans = <<>>
    /\ removals = <<>>
    /\ last = "new"
    /\ attempted = {}
    /\ commands = <<>>
    /\ walk = NoWalk

\* Analyzer::new with another exclude list (Init covers the first Analyzer)
NewAnalyzer(x) ==
    /\ calls < MaxCalls
    /\ scans # <<>> /\ removals = <<>>
    /\ x # opts.exclude
    /\ opts' = [opts EXCEPT !.exclude = x]
    /\ calls' = calls + 1
    /\ last' = "new"
    /\ UNCHANGED <<disk, scans, removals, attempted, commands, walk>>

\* what a scan that returns Ok leaves behind
Scanned(st, order) ==
    [disk |-> disk, opts |-> opts, outcome |-> "ok",
     files |-> st.files, roots |-> st.roots, graph |-> st.graph,
     reachable |-> st.reachable, findings |-> Findings(st, order)]

\* what a scan that returns Err, or panics, leaves behind
Failed(outcome) ==
    [disk |-> disk, opts |-> opts, outcome |-> outcome,
     files |-> <<>>, roots |-> <<>>, graph |-> <<>>, reachable |-> {}, findings |-> <<>>]

\* Analyzer::scan(root)
ScanStep(st) ==
    /\ calls < MaxCalls
    /\ IF st.outcome = "ok"
       THEN \E order \in Orders(st.reachable) : scans' = Append(scans, Scanned(st, order))
       ELSE scans' = Append(scans, Failed(st.outcome))
    /\ calls' = calls + 1
    /\ last' = "scan"
    /\ UNCHANGED <<disk, opts, removals, attempted, commands, walk>>

Scan == ScanStep(ScanState(disk, opts))

\* what a call of remove_safe_unreachable leaves behind: its arguments, the
\* scan whose result it was given, the paths it handed to fs::remove_file, the
\* paths on which fs::remove_file failed although the file was there, the tree
\* before and after, and the summary it returned
Removal(fix, yes, handed, refused, after, summary) ==
    [fix |-> fix, yes |-> yes, given |-> Len(scans), handed |-> handed,
     refused |-> refused, before |-> disk, after |-> after, summary |-> summary]

\* Analyzer::remove_safe_unreachable(result, fix, yes) on the latest scan result
RemoveStep(fix, yes, refused, candidates, skipped_risky) ==
    /\ calls < MaxCalls
    /\ IF ~Mutates(fix, yes)
       THEN /\ refused = {}
            /\ removals' = Append(removals,
                  Removal(fix, yes, <<>>, {}, disk,
                          RemoveSummary(Len(candidates), 0, skipped_risky, TRUE)))
            /\ UNCHANGED <<disk, attempted>>
       ELSE /\ refused \subseteq Range(candidates) \cap DOMAIN disk
            /\ disk' = [f \in DOMAIN disk \ Deleted(disk, candidates, refused) |-> disk[f]]
            /\ attempted' = attempted \cup Range(candidates)
            /\ removals' = Append(removals,
                  Removal(fix, yes, candidates, refused, disk',
                          RemoveSummary(Len(candidates),
                                        Cardinality(Deleted(disk, candidates, refused)),
                                        skipped_risky, FALSE)))
    /\ calls' = calls + 1
    /\ last' = "remove"
    /\ UNCHANGED <<opts, scans, commands, walk>>

Remove(fix, yes, refused) ==
    /\ scans # <<>>
    /\ scans[Len(scans)].outcome = "ok"
    /\ RemoveStep(fix, yes, refused,
                  RemovalCandidates(scans[Len(scans)].findings),
                  SkippedRisky(scans[Len(scans)].findings))

Next ==
    \/ \E x \in ExcludeMenu : NewAnalyzer(x)
    \/ Scan
    \/ \E fix, yes \in BOOLEAN : \E refused \in SUBSET DOMAIN disk : Remove(fix, yes, refused)

Spec == Init /\ [][Next]_vars

-----------------------------------------------------------------------------
(* One scan of each of a wider choice of trees and options: what the       *)
(* resolver, the root selector and the configuration loaders are given.    *)

DefaultOptions ==
    [include |-> DefaultInclude, exclude |-> <<>>, entry |-> <<>>,
     extensions |-> DefaultExtensions]

\* importers of ./x and ./user.service next to the files the candidates name
ResolverInputs ==
    {<<Tree(("r/src/index.ts" :> i) @@ ("r/src/x.ts" :> a) @@ ("r/src/x/index.js" :> b)
            @@ ("r/src/user.service.ts" :> c) @@ ("r/src/user.ts" :> d)),
       DefaultOptions>> :
        i \in {"uses_x", "uses_dot", "lazy2"},
        a \in {"-", "xmod"}, b \in {"-", "xmod"}, c \in {"-", "xmod"}, d \in {"-", "xmod"}}

\* entry lists: none, one file, two files out of order, one file twice, a
\* missing file, a directory
WideEntryMenu ==
    {<<>>, <<"src/a.ts">>, <<"src/b.ts", "src/a.ts">>, <<"src/a.ts", "src/a.ts">>,
     <<"src/missing.ts">>, <<"src">>}

\* every source of roots, present or not
RootInputs ==
    {<<Tree(("r/src/index.ts" :> i) @@ ("r/src/a.ts" :> a) @@ ("r/src/b.ts" :> b)
            @@ ("r/lib/x.ts" :> l) @@ ("r/package.json" :> pkg)),
       [DefaultOptions EXCEPT !.entry = e]>> :
        i \in {"-", "main"}, a \in {"-", "lib"}, b \in {"-", "self"}, l \in {"-", "single"},
        pkg \in {"-", "pkg_main_a", "pkg_main_lib", "pkg_empty", "pkg_many", "pkg_bad"},
        e \in WideEntryMenu}

\* well-formed, malformed and missing configuration
ConfigInputs ==
    {<<Tree(("r/src/index.ts" :> "main") @@ ("r/src/a.ts" :> "lib")
            @@ ("r/package.json" :> pkg) @@ ("r/tsconfig.json" :> ts)),
       [DefaultOptions EXCEPT !.include = inc, !.exclude = exc]>> :
        pkg \in {"-", "pkg_bad"}, ts \in {"-", "ts_bare", "ts_alias", "ts_bad"},
        inc \in {DefaultInclude, <<"src/{a">>}, exc \in {<<>>, <<"src/{a">>}}

\* files inside and outside src/, with and without an allowed extension, a
\* file next to a directory of its stem, under include and exclude lists
DiscoveryInputs ==
    {<<Tree(("r/src/x.ts" :> a) @@ ("r/src/x/index.js" :> b) @@ ("r/src/b.ts" :> c)
            @@ ("r/lib/x.ts" :> d) @@ ("r/src/readme.md" :> e)),
       [DefaultOptions EXCEPT !.include = inc, !.exclude = exc]>> :
        a \in {"-", "xmod"}, b \in {"-", "xmod"}, c \in {"-", "self"},
        d \in {"-", "single"}, e \in {"-", "effect"},
        inc \in {DefaultInclude, <<>>, <<"lib/**">>},
        exc \in {<<>>, <<"**/b.*">>, <<"lib/**">>}}

\* an importer in src/sub of ../x and ./x, next to the files they name
ParentInputs ==
    {<<Tree(("r/src/index.ts" :> "uses_sub") @@ ("r/src/sub/c.ts" :> "uses_up")
            @@ ("r/src/x.ts" :> a) @@ ("r/src/sub/x.ts" :> b)),
       DefaultOptions>> :
        a \in {"-", "xmod"}, b \in {"-", "xmod"}}

\* importers of aliased specifiers under alias rules that match and fail,
\* match and resolve, or match with overlapping prefix and suffix
AliasInputs ==
    {<<Tree(("r/src/index.ts" :> i) @@ ("r/src/a.ts" :> a) @@ ("r/src/b.ts" :> b)
            @@ ("r/src/g/a.ts" :> g) @@ ("r/tsconfig.json" :> ts)),
       DefaultOptions>> :
        i \in {"uses_alias", "uses_lib", "uses_libab"},
        a \in {"-", "lib"}, b \in {"-", "effect"}, g \in {"-", "xmod"},
        ts \in {"-", "ts_rules", "ts_overlap"}}

\* a file that imports itself and the file that imports it
LoopInputs ==
    {<<Tree(("r/src/index.ts" :> "main") @@ ("r/src/a.ts" :> a) @@ ("r/src/b.ts" :> "both")),
       [DefaultOptions EXCEPT !.entry = e]>> :
        a \in {"-", "lib"}, e \in {<<>>, <<"src/b.ts", "src/index.ts", "src/b.ts">>}}

\* import graphs: chains, cycles, self-imports and files nothing imports
GraphInputs == {<<d, DefaultOptions>> : d \in Trees}

ScanInputs ==
    ResolverInputs \cup RootInputs \cup ConfigInputs \cup DiscoveryInputs \cup GraphInputs
        \cup ParentInputs \cup AliasInputs \cup LoopInputs

ScanOnceInit ==
    /\ \E io \in ScanInputs : disk = io[1] /\ opts = io[2]
    /\ calls = 0
    /\ scans = <<>>
    /\ removals = <<>>
    /\ last = "new"
    /\ attempted = {}
    /\ commands = <<>>
    /\ walk = NoWalk

ScanOnce == scans = <<>> /\ Scan

ScanOnceSpec == ScanOnceInit /\ [][ScanOnce]_vars

-----------------------------------------------------------------------------
(* The commands (lib.rs): one process runs one command, which builds an    *)
(* Analyzer, scans, prints, for remove calls remove_safe_unreachable and   *)
(* prints again, and ends with maybe_fail.                                 *)

\* maybe_fail bailing on findings whatever the flag
MaybeFailAlways(findings, fail_on_findings) == findings # <<>>

\* maybe_fail: TRUE when it bails
MaybeFail(findings, fail_on_findings) == fail_on_findings /\ findings # <<>>

\* the results scan can return on the tree
ScanResults(st) ==
    IF st.outcome = "ok" THEN {Scanned(st, order) : order \in Orders(st.reachable)}
    ELSE {Failed(st.outcome)}

\* what the command returns: the error or panic of scan, the panic of
\* println! on a closed standard output, the error of maybe_fail, or Ok
CommandResult(sc, closed, fail_on_findings) ==
    IF sc.outcome # "ok" THEN sc.outcome
    ELSE IF closed THEN "panic"
    ELSE IF MaybeFail(sc.findings, fail_on_findings) THEN "err"
    ELSE "ok"

Command(name, fail_on_findings, fix, yes, closed, result) ==
    [command |-> name, fail_on_findings |-> fail_on_findings, fix |-> fix, yes |-> yes,
     closed |-> closed, result |-> result]

\* run_scan, for the commands scan and list; sc is what its scan returns
RunScan(sc, name, fail_on_findings, closed) ==
    /\ commands = <<>>
    /\ scans' = Append(scans, sc)
    /\ commands' = <<Command(name, fail_on_findings, FALSE, FALSE, closed,
                             CommandResult(sc, closed, fail_on_findings))>>
    /\ calls' = calls + 1
    /\ last' = "scan"
    /\ UNCHANGED <<disk, opts, removals, attempted, walk>>

\* run_remove: remove_safe_unreachable is reached when scan returned Ok and
\* its result was printed
RunRemove(sc, fix, yes, refused, fail_on_findings, closed) ==
    /\ commands = <<>>
    /\    LET candidates == RemovalCandidates(sc.findings)
              reached == sc.outcome = "ok" /\ ~closed
              mutates == reached /\ Mutates(fix, yes)
              gone == IF mutates THEN Deleted(disk, candidates, refused) ELSE {}
          IN  /\ refused \subseteq (IF mutates THEN Range(candidates) \cap DOMAIN disk ELSE {})
              /\ scans' = Append(scans, sc)
              /\ disk' = [f \in DOMAIN disk \ gone |-> disk[f]]
              /\ attempted' = IF mutates THEN attempted \cup Range(candidates) ELSE attempted
              /\ removals' =
                    IF reached
                    THEN Append(removals,
                           [Removal(fix, yes, IF mutates THEN candidates ELSE <<>>, refused,
                                    disk',
                                    RemoveSummary(Len(candidates), Cardinality(gone),
                                                  SkippedRisky(sc.findings), ~mutates))
                               EXCEPT !.given = Len(scans) + 1])
                    ELSE removals
              /\ commands' = <<Command("remove", fail_on_findings, fix, yes, closed,
                                       CommandResult(sc, closed, fail_on_findings))>>
    /\ calls' = calls + 1
    /\ last' = "remove"
    /\ UNCHANGED <<opts, walk>>

CommandNext ==
    \E sc \in ScanResults(ScanState(disk, opts)) :
        \/ \E flag, closed \in BOOLEAN : RunScan(sc, "scan", flag, closed)
        \/ \E flag, closed \in BOOLEAN : RunScan(sc, "list", flag, closed)
        \/ \E fix, yes, flag, closed \in BOOLEAN :
              \E refused \in SUBSET Range(RemovalCandidates(sc.findings)) :
                  RunRemove(sc, fix, yes, refused, flag, closed)

CommandSpec == Init /\ [][CommandNext]_vars

-----------------------------------------------------------------------------
(* One Analyzer on trees where an unreachable file without side effects    *)
(* imports from a reachable one: scan, remove_safe_unreachable, scan.      *)

RescanInputs ==
    {<<Tree(("r/src/index.ts" :> i) @@ ("r/src/a.ts" :> a) @@ ("r/src/b.ts" :> b)
            @@ ("r/src/c.ts" :> c)),
       [DefaultOptions EXCEPT !.entry = e]>> :
        i \in {"-", "main"}, a \in {"-", "lib"}, b \in {"-", "uses_c", "effect"},
        c \in {"-", "single"}, e \in EntryMenu}

RescanInit ==
    /\ \E io \in RescanInputs : disk = io[1] /\ opts = io[2]
    /\ calls = 0
    /\ scans = <<>>
    /\ removals = <<>>
    /\ last = "new"
    /\ attempted = {}
    /\ commands = <<>>
    /\ walk = NoWalk

RescanNext ==
    \/ Scan
    \/ \E fix, yes \in BOOLEAN : \E refused \in SUBSET DOMAIN disk : Remove(fix, yes, refused)

RescanSpec == RescanInit /\ [][RescanNext]_vars

-----------------------------------------------------------------------------
(* reachable_files one iteration of its loop at a time, on the roots and   *)
(* the graph scan hands it.                                                *)

\* the locals of reachable_files(&roots, &graph) when it enters its loop
StartWalk(st) ==
    [roots |-> st.roots, graph |-> st.graph, stack |-> st.roots,
     seen |-> {}, expanded |-> <<>>, running |-> TRUE]

TraverseInit ==
    /\ \E io \in GraphInputs \cup LoopInputs :
          /\ disk = io[1]
          /\ opts = io[2]
          /\ walk = StartWalk(ScanState(io[1], io[2]))
    /\ calls = 0
    /\ scans = <<>>
    /\ removals = <<>>
    /\ last = "new"
    /\ attempted = {}
    /\ commands = <<>>

\* the `continue` of reachable_files reading the top of the stack without
\* popping it
PopSeenPeeked == 
    /\ walk.running /\ walk.stack # <<>>
    /\ InSet(walk.seen, walk.stack[Len(walk.stack)])
    /\ walk' = walk
    /\ UNCHANGED <<disk, opts, calls, scans, removals, last, attempted, commands>>

\* stack.pop() gives a path seen.insert refuses: continue
PopSeen ==
    /\ walk.running /\ walk.stack # <<>>
    /\ InSet(walk.seen, walk.stack[Len(walk.stack)])
    /\ walk' = [walk EXCEPT !.stack = SubSeq(walk.stack, 1, Len(walk.stack) - 1)]
    /\ UNCHANGED <<disk, opts, calls, scans, removals, last, attempted, commands>>

\* stack.pop() gives a new path: it is inserted and its edges are pushed
PopNew ==
    /\ walk.running /\ walk.stack # <<>>
    /\ ~InSet(walk.seen, walk.stack[Len(walk.stack)])
    /\ walk' = [walk EXCEPT
                   !.stack = SubSeq(walk.stack, 1, Len(walk.stack) - 1)
                                \o EdgesOf(walk.graph, walk.stack[Len(walk.stack)]),
                   !.seen = walk.seen \cup {walk.stack[Len(walk.stack)]},
                   !.expanded = Append(walk.expanded, walk.stack[Len(walk.stack)])]
    /\ UNCHANGED <<disk, opts, calls, scans, removals, last, attempted, commands>>

\* stack.pop() gives None: the loop ends and seen is returned
ReturnSeen ==
    /\ walk.running /\ walk.stack = <<>>
    /\ walk' = [walk EXCEPT !.running = FALSE]
    /\ UNCHANGED <<disk, opts, calls, scans, removals, last, attempted, commands>>

TraverseNext == PopSeen \/ PopNew \/ ReturnSeen

\* the loop is sequential code of one thread: while an iteration is possible
\* one is taken
TraverseSpec == TraverseInit /\ [][TraverseNext]_vars /\ WF_vars(TraverseNext)


-----------------------------------------------------------------------------
(* Properties.  A property of a scan result is stated of the newest scan,  *)
(* in the state right after it was made; every scan is the newest once.    *)

Newest == scans[Len(scans)]

JustScanned == last = "scan" /\ Newest.outcome = "ok"

IsKind(f, kind) == f.kind = kind

\* the findings of a scan that name the file (as a path) and have the kind
FindingsOn(sc, file, kind) ==
    {i \in DOMAIN sc.findings :
        IsKind(sc.findings[i], kind) /\ PathEq(sc.findings[i].file, file)}

\* C1: the reachable set is closed under the edges of the graph: every edge
\* target of a reachable file is reachable.
C1_ReachableClosed ==
    JustScanned =>
        \A f \in Newest.reachable :
            \A k \in DOMAIN EdgesOf(Newest.graph, f) :
                InSet(Newest.reachable, EdgesOf(Newest.graph, f)[k])

\* a scan whose reachable files hold two that import each other
C1_Witness ==
    /\ JustScanned
    /\ \E f, g \in Newest.reachable :
          /\ ~PathEq(f, g)
          /\ InSet(Range(EdgesOf(Newest.graph, f)), g)
          /\ InSet(Range(EdgesOf(Newest.graph, g)), f)

\* C2: no UnreachableFile finding names a reachable file, no UnusedExport
\* finding names a file outside the reachable set, and so no file has both.
C2_KindsAgreeWithReachable ==
    JustScanned =>
        /\ \A i \in DOMAIN Newest.findings :
              /\ IsKind(Newest.findings[i], "UnreachableFile")
                    => ~InSet(Newest.reachable, Newest.findings[i].file)
              /\ IsKind(Newest.findings[i], "UnusedExport")
                    => InSet(Newest.reachable, Newest.findings[i].file)
        /\ \A f \in DOMAIN Newest.disk :
              FindingsOn(Newest, f, "UnreachableFile") = {}
                 \/ FindingsOn(Newest, f, "UnusedExport") = {}

\* a scan that reports both kinds
C2_Witness ==
    /\ JustScanned
    /\ \E i, j \in DOMAIN Newest.findings :
          /\ IsKind(Newest.findings[i], "UnreachableFile")
          /\ IsKind(Newest.findings[j], "UnusedExport")

\* C3: the tree changes only in a call of remove_safe_unreachable with both
\* fix and yes: a scan, a removal without fix and a removal with fix but
\* without yes leave every file in place.
C3_WritesOnlyWhenConfirmed ==
    [][disk' # disk =>
            /\ last' = "remove"
            /\ Len(removals') = Len(removals) + 1
            /\ removals'[Len(removals')].fix
            /\ removals'[Len(removals')].yes]_vars

\* a removal with fix and without yes that had a file planned and left the
\* tree as it was
C3_Witness ==
    /\ last = "remove"
    /\ removals[Len(removals)].fix /\ ~removals[Len(removals)].yes
    /\ removals[Len(removals)].summary.planned > 0
    /\ removals[Len(removals)].summary.dry_run
    /\ disk = removals[Len(removals)].before

\* the scan whose result a removal was given has a fixable UnreachableFile
\* finding on the path
FixableUnreachable(r, path) ==
    \E i \in FindingsOn(scans[r.given], path, "UnreachableFile") :
        scans[r.given].findings[i].fixable

\* C4: with fix and yes, only files named by fixable UnreachableFile findings
\* of the given result are handed to fs::remove_file, and every other file
\* of the tree (risky, reachable, or with other findings only) stays.
C4_DeletesOnlyFixableUnreachable ==
    \A k \in DOMAIN removals :
        /\ \A i \in DOMAIN removals[k].handed :
              FixableUnreachable(removals[k], removals[k].handed[i])
        /\ \A path \in DOMAIN removals[k].before :
              ~FixableUnreachable(removals[k], path) => path \in DOMAIN removals[k].after

\* a confirmed removal that deleted a file while the given result also had a
\* risky UnreachableFile finding and an UnusedExport finding, whose files stay
C4_Witness ==
    /\ last = "remove"
    /\ Mutates(removals[Len(removals)].fix, removals[Len(removals)].yes)
    /\ DOMAIN removals[Len(removals)].after # DOMAIN removals[Len(removals)].before
    /\ \E i, j \in DOMAIN scans[removals[Len(removals)].given].findings :
          /\ IsKind(scans[removals[Len(removals)].given].findings[i], "UnreachableFile")
          /\ ~scans[removals[Len(removals)].given].findings[i].fixable
          /\ scans[removals[Len(removals)].given].findings[i].file \in DOMAIN disk
          /\ IsKind(scans[removals[Len(removals)].given].findings[j], "UnusedExport")
          /\ IsFile(disk, scans[removals[Len(removals)].given].findings[j].file)

\* the newest removal
Latest == removals[Len(removals)]

\* scan, remove_safe_unreachable(result, fix = TRUE, yes = TRUE) on its result,
\* scan again with the same options: the state right after the second scan
RescannedAfterRemoval ==
    /\ JustScanned
    /\ removals # <<>>
    /\ Mutates(Latest.fix, Latest.yes)
    /\ Latest.given = Len(scans) - 1
    /\ scans[Latest.given].disk = Latest.before
    /\ scans[Latest.given].opts = Newest.opts
    /\ Newest.disk = Latest.after

NoFixableUnreachable(sc) ==
    \A i \in DOMAIN sc.findings :
        ~(IsKind(sc.findings[i], "UnreachableFile") /\ sc.findings[i].fixable)

Risky(sc, file) == HasPossibleSideEffects(Source(sc.disk[file]).lines)

\* C6: every discovered file outside the reachable set has exactly one
\* UnreachableFile finding; a risky file's has the reason
\* unreachable_but_has_possible_side_effects, confidence 0.6 and fixable =
\* false, a safe file's has unreachable_file, 0.98 and fixable = true.
C6_OneUnreachableFindingPerFile ==
    JustScanned =>
        \A k \in DOMAIN Newest.files :
            ~InSet(Newest.reachable, Newest.files[k]) =>
                /\ Cardinality(FindingsOn(Newest, Newest.files[k], "UnreachableFile")) = 1
                /\ \A i \in FindingsOn(Newest, Newest.files[k], "UnreachableFile") :
                      IF Risky(Newest, Newest.files[k])
                      THEN /\ Newest.findings[i].reason
                                 = "unreachable_but_has_possible_side_effects"
                           /\ Newest.findings[i].confidence = 60
                           /\ ~Newest.findings[i].fixable
                      ELSE /\ Newest.findings[i].reason = "unreachable_file"
                           /\ Newest.findings[i].confidence = 98
                           /\ Newest.findings[i].fixable

\* a scan with a risky and a safe unreachable file
C6_Witness ==
    /\ JustScanned
    /\ \E k, l \in DOMAIN Newest.files :
          /\ ~InSet(Newest.reachable, Newest.files[k])
          /\ ~InSet(Newest.reachable, Newest.files[l])
          /\ Risky(Newest, Newest.files[k])
          /\ ~Risky(Newest, Newest.files[l])

\* the imports of a discovered file of a scan
ImportsOf(sc, file) == ParseModule(Source(sc.disk[file])).imports

\* the imports, of any discovered file of the scan, that resolve to the target
Importers(sc, target) ==
    {imp \in UNION {Range(ImportsOf(sc, sc.files[i])) : i \in DOMAIN sc.files} :
        /\ ~imp.is_dynamic_non_literal
        /\ \E i \in DOMAIN sc.files :
              /\ imp \in Range(ImportsOf(sc, sc.files[i]))
              /\ \E t \in Range(ResolveImport(sc.files[i], imp.raw, sc.files,
                                              LoadTsPaths(sc.disk), sc.opts.extensions)) :
                    PathEq(t, target)}

\* the name is consumed by an import that resolves to the target: by name, or
\* by a wildcard use
ConsumedBySomeImporter(sc, target, name) ==
    \E imp \in Importers(sc, target) :
        imp.wildcard_use \/ name \in Range(imp.symbols)

ExportsOf(sc, file) == Range(ParseModule(Source(sc.disk[file])).exports)

\* C7: an UnusedExport finding for (file, name) is in the result iff the file
\* is reachable, the name is one of its exports, and no import of any
\* discovered file (reachable or not) that resolves to the file consumes the
\* name or uses the file as a whole.
C7_UnusedExportIff ==
    JustScanned =>
        /\ \A i \in DOMAIN Newest.findings :
              IsKind(Newest.findings[i], "UnusedExport") =>
                 \E k \in DOMAIN Newest.files :
                    /\ PathEq(Newest.files[k], Newest.findings[i].file)
                    /\ InSet(Newest.reachable, Newest.files[k])
                    /\ Len(Newest.findings[i].symbol) = 1
                    /\ Newest.findings[i].symbol[1] \in ExportsOf(Newest, Newest.files[k])
                    /\ ~ConsumedBySomeImporter(Newest, Newest.files[k],
                                               Newest.findings[i].symbol[1])
        /\ \A k \in DOMAIN Newest.files :
              InSet(Newest.reachable, Newest.files[k]) =>
                 \A name \in ExportsOf(Newest, Newest.files[k]) :
                    ~ConsumedBySomeImporter(Newest, Newest.files[k], name) =>
                       \E i \in FindingsOn(Newest, Newest.files[k], "UnusedExport") :
                          Newest.findings[i].symbol = <<name>>

\* a scan in which an export of a reachable file is consumed only by an
\* unreachable importer, next to an export that is reported
C7_Witness ==
    /\ JustScanned
    /\ \E k \in DOMAIN Newest.files :
          /\ InSet(Newest.reachable, Newest.files[k])
          /\ \E name \in ExportsOf(Newest, Newest.files[k]) :
                /\ ConsumedBySomeImporter(Newest, Newest.files[k], name)
                /\ \A i \in DOMAIN Newest.files :
                      (\E imp \in Range(ImportsOf(Newest, Newest.files[i])) :
                          /\ imp \in Importers(Newest, Newest.files[k])
                          /\ (imp.wildcard_use \/ name \in Range(imp.symbols)))
                         => ~InSet(Newest.reachable, Newest.files[i])
    /\ \E i \in DOMAIN Newest.findings : IsKind(Newest.findings[i], "UnusedExport")

\* the files of the tree that the exclude patterns of a scan match
ExcludedBy(sc) == {path \in DOMAIN sc.disk : SetMatch(sc.opts.exclude, Rel(path))}

\* two scans of the same tree whose options differ at most in exclude, the
\* second excluding a subset of what the first excludes
ShrunkExclude(i, j) ==
    /\ scans[i].outcome = "ok" /\ scans[j].outcome = "ok"
    /\ scans[i].disk = scans[j].disk
    /\ [scans[i].opts EXCEPT !.exclude = <<>>] = [scans[j].opts EXCEPT !.exclude = <<>>]
    /\ ExcludedBy(scans[j]) \subseteq ExcludedBy(scans[i])

\* C8 as stated: the scan that excludes less returns at least as many findings.
C8_AsStated ==
    \A i, j \in DOMAIN scans :
        ShrunkExclude(i, j) => Len(scans[j].findings) >= Len(scans[i].findings)

\* C8: the scan that excludes less discovers every file the other discovers
\* and returns every Uncertain finding the other returns; the number of
\* findings as a whole is not ordered.
C8_DiscoveredNondecreasing ==
    \A i, j \in DOMAIN scans :
        ShrunkExclude(i, j) =>
            /\ Range(scans[i].files) \subseteq Range(scans[j].files)
            /\ \A f \in Range(scans[i].findings) :
                  IsKind(f, "Uncertain") => f \in Range(scans[j].findings)

\* two scans of one tree, the second discovering a file the first excluded
C8_Witness ==
    \E i, j \in DOMAIN scans :
        /\ ShrunkExclude(i, j)
        /\ ExcludedBy(scans[j]) # ExcludedBy(scans[i])
        /\ Range(scans[j].files) # Range(scans[i].files)
        /\ scans[i].findings # <<>>

\* C9: two scans of the same tree with the same options return the same
\* sequence of findings, whatever the iteration order of the hash-based
\* collections.
C9_Deterministic ==
    \A i, j \in DOMAIN scans :
        scans[i].disk = scans[j].disk /\ scans[i].opts = scans[j].opts
            => scans[i].findings = scans[j].findings

\* C10: the findings of a scan are in ascending order of id.
C10_AscendingIds ==
    JustScanned =>
        \A i \in 1..(Len(Newest.findings) - 1) :
            StrLeq(Newest.findings[i].id, Newest.findings[i + 1].id)

\* a result in which an UnusedExport finding, pushed last, comes before an
\* UnreachableFile finding
C10_Witness ==
    /\ JustScanned
    /\ \E i, j \in DOMAIN Newest.findings :
          /\ i < j
          /\ IsKind(Newest.findings[i], "UnusedExport")
          /\ IsKind(Newest.findings[j], "UnreachableFile")
          /\ StrLt(Newest.findings[i].id, Newest.findings[j].id)

\* C11: no two findings of a scan result have the same id.
C11_UniqueIds ==
    JustScanned =>
        \A i, j \in DOMAIN Newest.findings :
            Newest.findings[i].id = Newest.findings[j].id => i = j

\* the number of findings of the kind, fixable or not as asked
CountUnreachable(findings, fixable) ==
    Cardinality({i \in DOMAIN findings :
                    IsKind(findings[i], "UnreachableFile") /\ findings[i].fixable = fixable})

\* C12: in every summary planned is the number of fixable UnreachableFile
\* findings of the given result, skipped_risky the number of those not
\* fixable, dry_run is the negation of (fix and yes), removed is 0 in a dry
\* run, and the summaries for (fix, no yes) and for (no fix) on the same
\* result are equal.
C12_SummaryFields ==
    /\ \A k \in DOMAIN removals :
          /\ removals[k].summary.planned
                = CountUnreachable(scans[removals[k].given].findings, TRUE)
          /\ removals[k].summary.skipped_risky
                = CountUnreachable(scans[removals[k].given].findings, FALSE)
          /\ removals[k].summary.dry_run = ~(removals[k].fix /\ removals[k].yes)
          /\ removals[k].summary.dry_run => removals[k].summary.removed = 0
    /\ \A k, l \in DOMAIN removals :
          /\ removals[k].given = removals[l].given
          /\ removals[k].fix /\ ~removals[k].yes
          /\ ~removals[l].fix
          => removals[k].summary = removals[l].summary

\* a removal with fix and without yes and a removal without fix, both on a
\* result with a fixable and a risky UnreachableFile finding
C12_Witness ==
    \E k, l \in DOMAIN removals :
        /\ removals[k].given = removals[l].given
        /\ removals[k].fix /\ ~removals[k].yes
        /\ ~removals[l].fix
        /\ removals[k].summary.planned >= 1
        /\ removals[k].summary.skipped_risky >= 1

\* C13: a confirmed removal returns a summary that is not a dry run; a failed
\* deletion is not counted and does not stop the loop: every candidate of
\* the tree on which fs::remove_file did not fail is gone, every other file
\* stays, removed is the number of files that went, and 0 <= removed <= planned.
C13_FailuresSwallowed ==
    \A k \in DOMAIN removals :
        Mutates(removals[k].fix, removals[k].yes) =>
            /\ ~removals[k].summary.dry_run
            /\ removals[k].summary.planned = Len(removals[k].handed)
            /\ \A f \in DOMAIN removals[k].before :
                  f \notin DOMAIN removals[k].after
                     <=> /\ f \notin removals[k].refused
                         /\ \E i \in DOMAIN removals[k].handed :
                               PathEq(removals[k].handed[i], f)
            /\ removals[k].summary.removed
                  = Cardinality(DOMAIN removals[k].before \ DOMAIN removals[k].after)
            /\ 0 <= removals[k].summary.removed
            /\ removals[k].summary.removed <= removals[k].summary.planned

\* a confirmed removal whose first deletion failed and whose second succeeded
C13_Witness ==
    /\ last = "remove"
    /\ Mutates(Latest.fix, Latest.yes)
    /\ Len(Latest.handed) >= 2
    /\ Latest.handed[1] \in Latest.refused
    /\ Latest.handed[1] \in DOMAIN Latest.after
    /\ Latest.handed[2] \in DOMAIN Latest.before
    /\ Latest.handed[2] \notin DOMAIN Latest.after
    /\ Latest.summary.removed < Latest.summary.planned

\* the static and literal-dynamic imports of a discovered file, each with
\* what the resolver returns for it
ResolutionsOf(sc, file) ==
    LET imports == SelectSeq(ImportsOf(sc, file), LAMBDA imp : ~imp.is_dynamic_non_literal)
    IN  [j \in DOMAIN imports |->
            ResolveImport(file, imports[j].raw, sc.files, LoadTsPaths(sc.disk),
                          sc.opts.extensions)]

\* C16: the keys of the graph are the discovered files; the resolver returns
\* None or a path equal to a discovered file; the edges of a file are the
\* resolved imports of that file, one each, so every edge target is a
\* discovered file and an unresolved specifier adds no edge.
C16_GraphWithinDiscovered ==
    JustScanned =>
        /\ DOMAIN Newest.graph = Range(Newest.files)
        /\ \A f \in DOMAIN Newest.graph :
              /\ \A k \in DOMAIN Newest.graph[f] :
                    InSet(Range(Newest.files), Newest.graph[f][k])
              /\ \A j \in DOMAIN ResolutionsOf(Newest, f) :
                    \A t \in Range(ResolutionsOf(Newest, f)[j]) :
                        InSet(Range(Newest.files), t)
              /\ Len(Newest.graph[f])
                    = Cardinality({j \in DOMAIN ResolutionsOf(Newest, f) :
                                      ResolutionsOf(Newest, f)[j] # <<>>})

\* a scan of a file with one import that resolves and one that does not
C16_Witness ==
    /\ JustScanned
    /\ \E f \in DOMAIN Newest.graph :
          /\ Len(Newest.graph[f]) >= 1
          /\ \E j \in DOMAIN ResolutionsOf(Newest, f) : ResolutionsOf(Newest, f)[j] = <<>>

\* the relative static and literal-dynamic specifiers of a discovered file
RelativeSpecifiers(sc, file) ==
    {imp.raw : imp \in {r \in Range(ImportsOf(sc, file)) :
                           ~r.is_dynamic_non_literal /\ StartsWith(r.raw, ".")}}

\* the candidate base of a relative specifier
BaseOf(file, raw) == Join(Parent(file), raw)

Discovered(sc, path) == InSet(Range(sc.files), path)

\* the allowed extensions, by position, for which base + "." + ext is discovered
WithExtensionAppended(sc, base) ==
    {k \in DOMAIN sc.opts.extensions : Discovered(sc, base \o "." \o sc.opts.extensions[k])}

\* the allowed extensions, by position, for which base/index.ext is discovered
WithIndex(sc, base) ==
    {k \in DOMAIN sc.opts.extensions :
        Discovered(sc, Join(base, "index." \o sc.opts.extensions[k]))}

\* the file has an edge to the path
HasEdge(sc, file, target) == \E t \in Range(sc.graph[file]) : PathEq(t, target)

\* C14: when base.<e2> and base/index.<e1> are discovered files and the bare
\* base is not, the specifier resolves to base.<e2>, for the first such e2 of
\* the extension list: extensioned candidates come before every index lookup.
C14_ExtensionBeforeIndex ==
    JustScanned =>
        \A k \in DOMAIN Newest.files :
            \A raw \in RelativeSpecifiers(Newest, Newest.files[k]) :
                /\ ~Discovered(Newest, BaseOf(Newest.files[k], raw))
                /\ WithExtensionAppended(Newest, BaseOf(Newest.files[k], raw)) # {}
                /\ WithIndex(Newest, BaseOf(Newest.files[k], raw)) # {}
                => HasEdge(Newest, Newest.files[k],
                           BaseOf(Newest.files[k], raw) \o "."
                             \o Newest.opts.extensions[
                                  Min(WithExtensionAppended(Newest,
                                                            BaseOf(Newest.files[k], raw)))])

\* C15: the extensioned candidate is the base with "." and the extension
\* appended: when the bare base is not discovered and no index file is, the
\* specifier resolves to base.<ext> for the first allowed extension for
\* which that file is discovered, also when the last segment of the
\* specifier already holds a dot.
C15_ExtensionAppended ==
    JustScanned =>
        \A k \in DOMAIN Newest.files :
            \A raw \in RelativeSpecifiers(Newest, Newest.files[k]) :
                /\ ~Discovered(Newest, BaseOf(Newest.files[k], raw))
                /\ WithExtensionAppended(Newest, BaseOf(Newest.files[k], raw)) # {}
                /\ WithIndex(Newest, BaseOf(Newest.files[k], raw)) = {}
                => HasEdge(Newest, Newest.files[k],
                           BaseOf(Newest.files[k], raw) \o "."
                             \o Newest.opts.extensions[
                                  Min(WithExtensionAppended(Newest,
                                                            BaseOf(Newest.files[k], raw)))])

\* the paths of the list, joined with the root, that exist on disk
ExistingPaths(sc, rels) ==
    {Join(Root, rels[i]) : i \in {j \in DOMAIN rels : Exists(sc.disk, Join(Root, rels[j]))}}

\* the roots each source yields: the entry list, package.json, the
\* conventional defaults, the first discovered file
FromEntries(sc) == ExistingPaths(sc, sc.opts.entry)

FromPackage(sc) ==
    IF PackageJsonPath \in DOMAIN sc.disk /\ PackageJson(sc.disk[PackageJsonPath]).valid
    THEN ExistingPaths(sc, PackageJson(sc.disk[PackageJsonPath]).entries)
    ELSE {}

FromConvention(sc) ==
    {Join(Root, ConventionalRoots[k]) :
        k \in {j \in DOMAIN ConventionalRoots :
                  /\ Exists(sc.disk, Join(Root, ConventionalRoots[j]))
                  /\ \A h \in 1..(j - 1) : ~Exists(sc.disk, Join(Root, ConventionalRoots[h]))}}

FromFallback(sc) == {sc.files[k] : k \in DOMAIN sc.files \cap {1}}

SamePaths(S, T) == {Components(p) : p \in S} = {Components(p) : p \in T}

C18_RootsSortedDeduplicated ==
    JustScanned =>
        \A i, j \in DOMAIN Newest.roots :
            i < j => PathLt(Newest.roots[i], Newest.roots[j])

\* the scan reads a malformed configuration: a glob, the tsconfig.json, or
\* the package.json it consults when the entry list yields no root
MalformedConfiguration(sc) ==
    \/ ~GlobsValid(sc.opts)
    \/ TsConfigPath \in DOMAIN sc.disk /\ ~TsConfig(sc.disk[TsConfigPath]).valid
    \/ /\ FromEntries(sc) = {}
       /\ PackageJsonPath \in DOMAIN sc.disk
       /\ ~PackageJson(sc.disk[PackageJsonPath]).valid

\* C19: a scan given a malformed glob, tsconfig.json or package.json returns
\* an error and no findings; with well-formed globs and package.json, a
\* missing tsconfig.json or one without compilerOptions gives no error.
C19_MalformedConfigurationFatal ==
    last = "scan" =>
        /\ MalformedConfiguration(Newest)
              => Newest.outcome = "err" /\ Newest.findings = <<>>
        /\ ~MalformedConfiguration(Newest) => Newest.outcome = "ok"

\* the distinct texts of the non-literal dynamic import expressions of a file
NonLiteralExpressions(sc, file) ==
    {Trim(Source(sc.disk[file]).dynamic_imports[i]) :
        i \in {j \in DOMAIN Source(sc.disk[file]).dynamic_imports :
                  ~IsStringLiteral(Source(sc.disk[file]).dynamic_imports[j])}}

\* C20: a file has exactly one Uncertain finding per distinct non-literal
\* dynamic import expression, with confidence 0.3 and fixable = false; such
\* an import adds no edge (the edges are the resolved other imports); and a
\* discovered file that is no root and no edge target is reported as
\* UnreachableFile.
C20_NonLiteralDynamicImports ==
    JustScanned =>
        /\ \A k \in DOMAIN Newest.files :
              /\ Cardinality(FindingsOn(Newest, Newest.files[k], "Uncertain"))
                    = Cardinality(NonLiteralExpressions(Newest, Newest.files[k]))
              /\ \A e \in NonLiteralExpressions(Newest, Newest.files[k]) :
                    \E i \in FindingsOn(Newest, Newest.files[k], "Uncertain") :
                        /\ Newest.findings[i].id = "uc:" \o Newest.files[k] \o ":" \o e
                        /\ Newest.findings[i].confidence = 30
                        /\ ~Newest.findings[i].fixable
                        /\ Newest.findings[i].reason = "dynamic_import_non_literal"
              /\ Len(Newest.graph[Newest.files[k]])
                    = Cardinality({j \in DOMAIN ResolutionsOf(Newest, Newest.files[k]) :
                                      ResolutionsOf(Newest, Newest.files[k])[j] # <<>>})
        /\ \A k \in DOMAIN Newest.files :
              /\ ~InSet(Range(Newest.roots), Newest.files[k])
              /\ \A f \in DOMAIN Newest.graph : ~HasEdge(Newest, f, Newest.files[k])
              => FindingsOn(Newest, Newest.files[k], "UnreachableFile") # {}

\* a scan of a root with two distinct non-literal expressions, one of them
\* at two call sites, next to a file nothing imports statically
C20_Witness ==
    /\ JustScanned
    /\ \E k, l \in DOMAIN Newest.files :
          /\ Len(Source(Newest.disk[Newest.files[k]]).dynamic_imports) >= 4
          /\ Cardinality(NonLiteralExpressions(Newest, Newest.files[k])) = 2
          /\ Cardinality(FindingsOn(Newest, Newest.files[k], "Uncertain")) = 2
          /\ InSet(Newest.reachable, Newest.files[k])
          /\ FindingsOn(Newest, Newest.files[l], "UnreachableFile") # {}

\* the three conditions of source discovery on a file of the tree
AcceptedByRule(sc, path) ==
    /\ \A i \in DOMAIN sc.opts.exclude : ~GlobMatch(sc.opts.exclude[i], Rel(path))
    /\ Extension(path) \in Range(sc.opts.extensions)
    /\ \/ sc.opts.include = <<>>
       \/ \E i \in DOMAIN sc.opts.include : GlobMatch(sc.opts.include[i], Rel(path))
       \/ StartsWith(Rel(path), "src/")

\* the discovered list holds exactly the accepted files, each once
DiscoveredAsRuled(sc) ==
    /\ Range(sc.files) = {path \in DOMAIN sc.disk : AcceptedByRule(sc, path)}
    /\ \A i, j \in DOMAIN sc.files : sc.files[i] = sc.files[j] => i = j

C27_SomeRootDiscovered ==
    JustScanned /\ Newest.files # <<>> =>
        /\ \E k \in DOMAIN Newest.roots : Discovered(Newest, Newest.roots[k])
        /\ \E k \in DOMAIN Newest.files : InSet(Newest.reachable, Newest.files[k])
        /\ \E k \in DOMAIN Newest.files :
              FindingsOn(Newest, Newest.files[k], "UnreachableFile") = {}

\* the discovered files equal to a root, and those an edge path leads to
RECURSIVE EdgeClosure(_, _)
EdgeClosure(sc, S) ==
    LET T == S \cup {f \in Range(sc.files) : \E g \in S : HasEdge(sc, g, f)}
    IN  IF T = S THEN S ELSE EdgeClosure(sc, T)

RootFiles(sc) == {f \in Range(sc.files) : InSet(Range(sc.roots), f)}

\* C23: a discovered file is in the reachable set if and only if it is a
\* root or a path of graph edges leads from a root to it.
C23_ReachableExact ==
    JustScanned =>
        \A k \in DOMAIN Newest.files :
            InSet(Newest.reachable, Newest.files[k])
                <=> Newest.files[k] \in EdgeClosure(Newest, RootFiles(Newest))

\* a scan whose only root is the fallback first discovered file, with a
\* file in its import closure and a file outside it
C23_Witness ==
    /\ JustScanned
    /\ Newest.opts.entry = <<>>
    /\ FromPackage(Newest) = {}
    /\ FromConvention(Newest) = {}
    /\ Newest.files # <<>>
    /\ Newest.roots = <<Newest.files[1]>>
    /\ \E k \in DOMAIN Newest.files :
          k # 1 /\ InSet(Newest.reachable, Newest.files[k])
    /\ \E k \in DOMAIN Newest.files : ~InSet(Newest.reachable, Newest.files[k])

\* the path with its "." and ".." segments resolved
Canonical(p) == Resolved(<<>>, Components(p))

\* C24: a specifier beginning with ../ whose base, with an allowed extension
\* appended and its parent segment resolved, names a discovered file gives an
\* edge to that file.
C24_ParentSegmentResolves ==
    JustScanned =>
        \A k \in DOMAIN Newest.files :
            \A raw \in {s \in RelativeSpecifiers(Newest, Newest.files[k]) :
                           StartsWith(s, "../")} :
                \A g \in Range(Newest.files) :
                    (\E e \in Range(Newest.opts.extensions) :
                        Canonical(BaseOf(Newest.files[k], raw) \o "." \o e) = Components(g))
                    => HasEdge(Newest, Newest.files[k], g)

\* the specifier matches the alias of the rule
RuleMatches(alias, raw) ==
    LET star == Find(alias, "*")
    IN  IF star = 0 THEN alias = raw
        ELSE \E middle \in {SubSeq(raw, i, j) : i \in 1..(Len(raw) + 1), j \in 0..Len(raw)} :
                raw = SubSeq(alias, 1, star - 1) \o middle \o SubSeq(alias, star + 1, Len(alias))

\* the middle of a specifier that matches a wildcard alias, "" for an exact one
MiddleOf(alias, raw) ==
    LET star == Find(alias, "*")
    IN  IF star = 0 THEN ""
        ELSE SubSeq(raw, star, Len(raw) - (Len(alias) - star))

\* what the target j of the rule i resolves to for the specifier
PairResolution(sc, ts, raw, i, j) ==
    IF ~RuleMatches(ts.mappings[i].alias, raw) THEN <<>>
    ELSE ResolveCandidate(
            Join(BaseDir(ts),
                 IF Find(ts.mappings[i].alias, "*") = 0 THEN ts.mappings[i].targets[j]
                 ELSE ReplaceStar(ts.mappings[i].targets[j],
                                  MiddleOf(ts.mappings[i].alias, raw))),
            sc.files, sc.opts.extensions)

\* the (rule, target) pairs that resolve, and the first of them
ResolvingPairs(sc, ts, raw) ==
    {p \in UNION {{<<i, j>> : j \in DOMAIN ts.mappings[i].targets} : i \in DOMAIN ts.mappings} :
        PairResolution(sc, ts, raw, p[1], p[2]) # <<>>}

FirstPair(P) ==
    CHOOSE p \in P : \A q \in P : p[1] < q[1] \/ (p[1] = q[1] /\ p[2] <= q[2])

\* the result the rule order gives for an import of the file
ByRuleOrder(sc, file, raw) ==
    LET ts == LoadTsPaths(sc.disk)
        P == ResolvingPairs(sc, ts, raw)
    IN  IF StartsWith(raw, ".")
        THEN ResolveCandidate(BaseOf(file, raw), sc.files, sc.opts.extensions)
        ELSE IF P = {} THEN <<>>
        ELSE PairResolution(sc, ts, raw, FirstPair(P)[1], FirstPair(P)[2])

\* the literal imports of the file, in order
LiteralImports(sc, file) ==
    SelectSeq(ImportsOf(sc, file), LAMBDA imp : ~imp.is_dynamic_non_literal)

\* C25: the edges of a file are, import by import, the result of the first
\* (alias rule, target) pair in rule order and then target order whose base
\* resolves, none when no pair resolves; a specifier beginning with "."
\* is resolved against the importer's directory only.
C25_FirstResolvingPair ==
    JustScanned =>
        \A f \in DOMAIN Newest.graph :
            Newest.graph[f]
                = Flatten([j \in DOMAIN LiteralImports(Newest, f) |->
                              ByRuleOrder(Newest, f, LiteralImports(Newest, f)[j].raw)])

\* a scan where an earlier rule matches a specifier and none of its targets
\* resolves, a later rule resolves it by its second target, and a specifier
\* beginning with "." that equals an alias gives no edge
C25_Witness ==
    /\ JustScanned
    /\ \E f \in DOMAIN Newest.graph :
          LET ts == LoadTsPaths(Newest.disk)
          IN  /\ \E imp \in Range(LiteralImports(Newest, f)) :
                    \E i, k \in DOMAIN ts.mappings :
                        /\ i < k
                        /\ RuleMatches(ts.mappings[i].alias, imp.raw)
                        /\ ResolvingPairs(Newest, ts, imp.raw) # {}
                        /\ FirstPair(ResolvingPairs(Newest, ts, imp.raw)) = <<k, 2>>
              /\ \E imp \in Range(LiteralImports(Newest, f)) :
                    /\ StartsWith(imp.raw, ".")
                    /\ \E i \in DOMAIN ts.mappings :
                          /\ ts.mappings[i].alias = imp.raw
                          /\ ResolveTargets(ts.mappings[i].targets, ts, Newest.files,
                                            Newest.opts.extensions) # <<>>
                    /\ ByRuleOrder(Newest, f, imp.raw) = <<>>
              /\ Len(Newest.graph[f]) = 1

\* C26: matching a specifier against a wildcard alias always completes, also
\* when the specifier is shorter than the prefix and the suffix together: no
\* scan ends in a panic.
C26_WildcardMatchTotal == last = "scan" => Newest.outcome # "panic"

\* the command that ran and the scan it made
Ran == commands[1]

\* C22: when scan returned a result and it was printed, the command returns
\* an error if and only if fail_on_findings is set and the findings of its
\* scan are not empty, and success otherwise; remove has then already run
\* the removal on those findings, made on the tree as it was before, and the
\* candidates it could delete are gone from the tree.
C22_FailOnFindingsGate ==
    commands # <<>> /\ Newest.outcome = "ok" /\ ~Ran.closed =>
        /\ Ran.result = "err" <=> (Ran.fail_on_findings /\ Newest.findings # <<>>)
        /\ Ran.result = "ok" <=> ~(Ran.fail_on_findings /\ Newest.findings # <<>>)
        /\ Ran.command = "remove" =>
              /\ removals # <<>>
              /\ Latest.given = Len(scans)
              /\ Latest.before = Newest.disk
              /\ disk = Latest.after
              /\ Mutates(Ran.fix, Ran.yes) =>
                    \A f \in Range(RemovalCandidates(Newest.findings)) \ Latest.refused :
                        f \notin DOMAIN disk

\* a remove command with fix, yes and fail_on_findings that deleted a file
\* and returned an error, and whose scan found the deleted file on the tree
C22_Witness ==
    /\ commands # <<>>
    /\ Ran.command = "remove" /\ Ran.fix /\ Ran.yes /\ Ran.fail_on_findings
    /\ Ran.result = "err"
    /\ removals # <<>>
    /\ Latest.summary.removed >= 1
    /\ \E f \in DOMAIN Newest.disk : f \notin DOMAIN disk

\* C28: the traversal ends: the stack empties and the loop is left for good;
\* meanwhile no path has its edges pushed twice, and what is returned is the
\* reachable set of the roots.
C28_TraversalTerminates ==
    /\ <>[](~walk.running /\ walk.stack = <<>>)
    /\ [](\A i, j \in DOMAIN walk.expanded :
             PathEq(walk.expanded[i], walk.expanded[j]) => i = j)
    /\ [](~walk.running => walk.seen = ReachableFiles(walk.roots, walk.graph))

\* a finished traversal of a graph where a file imports itself, two files
\* import each other, and both were expanded
C28_Witness ==
    /\ ~walk.running /\ walk.roots # <<>>
    /\ \E n \in Range(walk.expanded) : InSet(Range(EdgesOf(walk.graph, n)), n)
    /\ \E n, m \in Range(walk.expanded) :
          /\ ~PathEq(n, m)
          /\ InSet(Range(EdgesOf(walk.graph, n)), m)
          /\ InSet(Range(EdgesOf(walk.graph, m)), n)

\* the scan whose result the latest removal was given
Given == scans[Latest.given]

\* the second scan of: scan, remove_safe_unreachable(fix, yes) with every
\* deletion succeeding, scan
RescannedAfterFullRemoval == RescannedAfterRemoval /\ Latest.refused = {}

\* the findings of the second scan that the first did not have
NewFindings ==
    {i \in DOMAIN Newest.findings :
        \A j \in DOMAIN Given.findings : Given.findings[j] # Newest.findings[i]}

=============================================================================
